---------------------------- MODULE Spec2Model ----------------------------
(***************************************************************************)
(* Model of the Query Fan-Out core of Brief-AI-APP:                        *)
(*   - ParallelBriefProcessor.executeWithCircuitBreaker and the            *)
(*     RetryWrapper it runs every operation through (Spec; SpecSeq with    *)
(*     the calls made one at a time; SpecTrial with calls side by side     *)
(*     only while the breaker is HALF_OPEN),                               *)
(*   - RetryWrapper.executeWithRetry on its own (SpecRetry),               *)
(*   - the batch runners executeParallelBriefAnalysis, processBriefQueries *)
(*     and QueryFanoutService.executeParallelQueries (SpecBatch),          *)
(*   - BriefCacheService (SpecCache),                                      *)
(*   - QueryFanoutService.executeQueryFanout (SpecFanout) and the          *)
(*     functions it is built from (SpecFunctions),                         *)
(*   - ReferralService.useCredits (SpecCredits),                           *)
(*   - GeminiAIService.generateContentStrategy (SpecGemini).               *)
(* JavaScript runs the code on one thread: a step of the model is the code *)
(* that runs between two await points.                                     *)
(***************************************************************************)
EXTENDS Integers, Sequences, FiniteSets, Bags, TLC

VARIABLES
  now,              \* Date.now(), in ms
  circuitBreakers,  \* the Map's entry for 'default': 0 (absent) or an object id
  heap,             \* the CircuitBreakerState objects, by object id
  calls,            \* the bag of executeWithCircuitBreaker calls in flight
  started,          \* number of executeWithCircuitBreaker calls made so far
  failedCalls,      \* history: calls whose executeWithRetry threw
  ret,              \* history: what the call that returned last resolved with,
                    \*          and the await it returned from
  retry,            \* one executeWithRetry call (SpecRetry)
  batch,            \* one call of a batch runner (SpecBatch)
  cache,            \* BriefCacheService.cache: the entries by key (SpecCache)
  lastGet,          \* history: the getCachedResult call that has just
                    \*          returned; NoGet after any other step
  lastSet,          \* history: by key, the arguments and time of the last
                    \*          setCachedResult since the key was last
                    \*          invalidated or cleared
  invalidated,      \* history: the pattern and the size of the map before
                    \*          the call when the last step was a call of
                    \*          invalidateCache, else <<>>
  calc,             \* the last call of a function of QueryFanoutService or
                    \* of createBatches: its name, arguments and result
                    \* (SpecFunctions)
  fanout,           \* one call of executeQueryFanout (SpecFanout)
  credits,          \* the Firestore documents of one referral code and the
                    \* useCredits calls in flight (SpecCredits)
  gemini            \* the GeminiAIService object and its
                    \* generateContentStrategy calls in flight (SpecGemini)

breakerVars == <<circuitBreakers, heap, calls, started, failedCalls, ret>>

cacheVars == <<cache, lastGet, lastSet, invalidated>>

vars == <<now, circuitBreakers, heap, calls, started, failedCalls, ret, retry,
          batch, cache, lastGet, lastSet, invalidated, calc, fanout,
          credits, gemini>>

(* What the steps of one component leave alone. *)
notBreaker == <<retry, batch, cacheVars, calc, fanout, credits, gemini>>
notRetry == <<breakerVars, batch, cacheVars, calc, fanout, credits, gemini>>
notBatch == <<calls, started, failedCalls, ret, retry, cacheVars, calc, fanout,
              credits, gemini>>
notCache == <<breakerVars, retry, batch, calc, fanout, credits, gemini>>
notCalc == <<now, breakerVars, retry, batch, cacheVars, fanout, credits,
             gemini>>
notFanout == <<breakerVars, retry, batch, cacheVars, calc, credits, gemini>>
notCredits == <<now, breakerVars, retry, batch, cacheVars, calc, fanout,
                gemini>>
notGemini == <<now, breakerVars, retry, batch, cacheVars, calc, fanout,
               credits>>

----------------------------------------------------------------------------
(* Program constants *)

FailureThreshold == 5
RecoveryTimeout == 60000
maxRetries == 3
baseDelay == 1000
maxDelay == 10000
concurrencyLimit == 10
batchSize == 3
batchDelay == 1000
maxParallelQueries == 5
queryTimeout == 30000
ttl == 3600000

(* Bounds of the model *)

MaxInflight == 2
MaxCalls == 6
MaxNow == 100000
MaxRetryNow == 9000
MaxQueries == 11
MaxFine == 2
MaxSerp == 3
MaxAggregated == 3
MaxOutcomes == 7
MaxCompetitors == 4
MaxOption == 19
MaxBatchSize == 4
MaxFanoutCompetitors == 1
MaxFanoutOption == 4
MaxFanoutNow == 70000
MaxTrialCalls == 7
MaxCredits == 2
MaxUseCalls == 3
MaxGenerating == 2

----------------------------------------------------------------------------
(* Helpers *)

Min(a, b) == IF a < b THEN a ELSE b

RECURSIVE Pow2(_)
Pow2(n) == IF n = 0 THEN 1 ELSE 2 * Pow2(n - 1)

----------------------------------------------------------------------------
(* RetryWrapper.executeWithRetry *)

Errors == {"e1", "e2"}
Values == {"v1", "v2"}
NoError == "none"

(* retryCondition: not given, or given and true of the errors in retryable *)
RetryConditions ==
  {[given |-> FALSE, retryable |-> {}]}
    \cup {[given |-> TRUE, retryable |-> S] : S \in SUBSET Errors}

(* A backoff that grows by baseDelay per attempt instead of doubling. *)
BackoffDelay_Linear(attempt) == Min(baseDelay * (attempt + 1), maxDelay)

(* Math.min(baseDelay * Math.pow(2, attempt), maxDelay) *)
BackoffDelay(attempt) == Min(baseDelay * Pow2(attempt), maxDelay)

(* attempt === this.maxRetries: the failed attempt was the last one *)
IsLastAttempt(attempt) == attempt = maxRetries

(* A catch block that does not ask the retryCondition. *)
GivesUp_Never(cond, error) == FALSE

(* retryCondition && !retryCondition(lastError) *)
GivesUp(cond, error) == cond.given /\ error \notin cond.retryable

(* A catch block that keeps the first error it saw. *)
CatchError_KeepsFirst(lastError, error) ==
  IF lastError = NoError THEN error ELSE lastError

(* lastError = error as Error *)
CatchError(lastError, error) == error

RetryIdle ==
  [pc |-> "idle", cond |-> [given |-> FALSE, retryable |-> {}],
   attempt |-> 0, invoked |-> 0, lastError |-> NoError, wakeAt |-> 0,
   out |-> [kind |-> "none", v |-> "none"],
   invokedAt |-> 0,  \* history: when operation() was invoked last
   log |-> <<>>,     \* history: how each invocation of operation() settled
   waits |-> <<>>]   \* history: the delays given to setTimeout

RetryInit == retry = RetryIdle

(* executeWithRetry(operation, retryCondition) up to its first await:      *)
(* attempt 0 invokes operation().                                          *)
RetryCall ==
  /\ retry.pc = "idle"
  /\ \E cond \in RetryConditions :
       retry' = [retry EXCEPT !.pc = "op", !.cond = cond, !.invoked = 1,
                              !.invokedAt = now]
  /\ UNCHANGED <<now, notRetry>>

(* operation() resolves with v: return await operation() *)
RetryOpResolves ==
  /\ retry.pc = "op"
  /\ \E v \in Values :
       retry' = [retry EXCEPT !.pc = "returned",
                              !.out = [kind |-> "value", v |-> v],
                              !.log = Append(@, [ok |-> TRUE, v |-> v,
                                                 from |-> retry.invokedAt,
                                                 at |-> now])]
  /\ UNCHANGED <<now, notRetry>>

(* operation() rejects with e: the catch block throws lastError or starts  *)
(* the backoff timer.                                                      *)
RetryOpRejects ==
  /\ retry.pc = "op"
  /\ \E e \in Errors :
       LET lastError == CatchError(retry.lastError, e)
           logged == Append(retry.log, [ok |-> FALSE, v |-> e, from |-> retry.invokedAt,
                                     at |-> now])
       IN IF IsLastAttempt(retry.attempt) \/ GivesUp(retry.cond, lastError)
          THEN retry' = [retry EXCEPT !.pc = "thrown",
                                      !.lastError = lastError,
                                      !.out = [kind |-> "error", v |-> lastError],
                                      !.log = logged]
          ELSE retry' = [retry EXCEPT !.pc = "delay",
                                      !.lastError = lastError,
                                      !.wakeAt = now + BackoffDelay(retry.attempt),
                                      !.waits = Append(@, BackoffDelay(retry.attempt)),
                                      !.log = logged]
  /\ UNCHANGED <<now, notRetry>>

(* The backoff timer fires, not before it is due: attempt++ and the next   *)
(* attempt invokes operation().                                            *)
RetryTimerFires ==
  /\ retry.pc = "delay"
  /\ now >= retry.wakeAt
  /\ retry' = [retry EXCEPT !.pc = "op", !.attempt = @ + 1, !.invoked = @ + 1,
                            !.invokedAt = now]
  /\ UNCHANGED <<now, notRetry>>

(* Time passes, baseDelay ms at a time. *)
RetryTick ==
  /\ now + baseDelay <= MaxRetryNow
  /\ now' = now + baseDelay
  /\ UNCHANGED <<retry, notRetry>>

----------------------------------------------------------------------------
(* The batch runners of ParallelBriefProcessor ("brief") and                *)
(* QueryFanoutService.executeParallelQueries ("fanout")                    *)

(* "brief" stands for executeParallelBriefAnalysis and processBriefQueries, *)
(* which differ only in the operation and the fallback they pass on.       *)
Runners == {"brief", "fanout"}

BatchSizeOf(runner) == IF runner = "fanout" THEN batchSize ELSE concurrencyLimit

(* A slice that also takes the element at index to. *)
Slice_Inclusive(items, from, to) ==
  [j \in 1..(Min(to + 1, Len(items)) - Min(from, Len(items))) |-> items[from + j]]

(* items.slice(from, to), from and to counted from 0 *)
Slice(items, from, to) ==
  [j \in 1..(Min(to, Len(items)) - Min(from, Len(items))) |-> items[from + j]]

(* A loop that steps one item too far after each batch. *)
RECURSIVE BatchesFrom_StepsTooFar(_, _, _)
BatchesFrom_StepsTooFar(items, size, i) ==
  IF i < Len(items)
  THEN <<Slice(items, i, i + size)>> \o BatchesFrom_StepsTooFar(items, size, i + size + 1)
  ELSE <<>>

(* createBatches(items, size): the slices at i = 0, size, 2 * size, ...    *)
RECURSIVE BatchesFrom(_, _, _)
BatchesFrom(items, size, i) ==
  IF i < Len(items)
  THEN <<Slice(items, i, i + size)>> \o BatchesFrom(items, size, i + size)
  ELSE <<>>

CreateBatches(items, size) == BatchesFrom(items, size, 0)

(* A result object that reports success whatever happened. *)
QueryResult_AlwaysOk(q, ok) == [query |-> q, success |-> TRUE]

(* The result object of one query: success is true for the operation's     *)
(* result and false for the fallback or failure record.                    *)
QueryResult(q, ok) == [query |-> q, success |-> ok]

(* A promise not settled yet: at "op" its operation runs, at "fb" the      *)
(* breaker has refused it and its fallback is about to be returned; own    *)
(* tells that the call holds a state object of its own, made because the   *)
(* map had none when the call started.                                     *)
Pending(at, own) == [status |-> "pending", at |-> at, own |-> own]

Fulfilled(value) == [status |-> "fulfilled", value |-> value]

(* A forEach that puts each value in front of the results. *)
RECURSIVE Collect_Prepends(_, _, _, _, _)
Collect_Prepends(runner, results, cur, settled, j) ==
  IF j > Len(cur) THEN results
  ELSE Collect_Prepends(runner,
                        IF settled[j].status = "fulfilled"
                        THEN <<settled[j].value>> \o results
                        ELSE IF runner = "fanout" THEN results
                        ELSE <<QueryResult(cur[j], FALSE)>> \o results,
                        cur, settled, j + 1)

(* batchResults.forEach: a fulfilled value is pushed; for a rejected       *)
(* promise the brief processor pushes the fallback of batch[index] and     *)
(* executeParallelQueries pushes nothing.                                  *)
RECURSIVE Collect(_, _, _, _, _)
Collect(runner, results, cur, settled, j) ==
  IF j > Len(cur) THEN results
  ELSE Collect(runner,
               IF settled[j].status = "fulfilled"
               THEN Append(results, settled[j].value)
               ELSE IF runner = "fanout" THEN results
               ELSE Append(results, QueryResult(cur[j], FALSE)),
               cur, settled, j + 1)

BatchIdle ==
  [pc |-> "idle", runner |-> "brief", queries |-> <<>>, batches |-> <<>>,
   pos |-> 0, cur |-> <<>>, settled |-> <<>>, results |-> <<>>,
   delays |-> 0,            \* history: the delays between batches
   outOfOrder |-> FALSE,    \* history: an item settled before an earlier one
   opOk |-> <<>>]           \* history: what became of each query's operation:
                            \* "ok", "failed", "skipped" when the breaker
                            \* was OPEN and refused it, "refused" when the
                            \* breaker refused it in another state

BatchInit == batch = BatchIdle

----------------------------------------------------------------------------
(* BriefCacheService *)

(* Keys and patterns are strings, written as sequences of characters. *)
Keys == {<<"a", "b">>, <<"b", "a">>}
Data == {"d1", "d2"}

(* The customTtl argument of setCachedResult: left out, or a number. *)
CustomTtls == {[given |-> FALSE, v |-> 0], [given |-> TRUE, v |-> 0],
               [given |-> TRUE, v |-> 1]}

(* A setCachedResult that always writes the default ttl. *)
TtlOf_IgnoresCustom(customTtl) == ttl

(* customTtl || this.ttl: undefined and 0 give the default. *)
TtlOf(customTtl) ==
  IF customTtl.given /\ customTtl.v # 0 THEN customTtl.v ELSE ttl

(* An expiry test against the service's default ttl. *)
Expired_DefaultTtl(cached, t) == t - cached.timestamp > ttl

(* Date.now() - cached.timestamp > cached.ttl *)
Expired(cached, t) == t - cached.timestamp > cached.ttl

(* A result of getCachedResult or of Map.get: <<>> for null or undefined,  *)
(* <<e>> for the entry e.                                                  *)
Found(k) == IF k \in DOMAIN cache THEN <<cache[k]>> ELSE <<>>

(* A delete that empties the map. *)
Delete_All(m, k) == [x \in {} |-> m[x]]

(* Map.delete(k) *)
Delete(m, k) == [x \in DOMAIN m \ {k} |-> m[x]]

(* The patterns invalidateCache is called with: literal characters, the    *)
(* anchors ^ and $, and the wildcard . of a regular expression.            *)
Patterns == {<<"a", "b">>, <<"b">>, <<"^", "b">>, <<"b", "$">>, <<"c">>}

(* Whether pattern, from its i-th element on, matches key at position j. *)
RECURSIVE MatchAt(_, _, _, _)
MatchAt(pattern, i, key, j) ==
  IF i > Len(pattern) THEN TRUE
  ELSE IF pattern[i] = "^" THEN j = 1 /\ MatchAt(pattern, i + 1, key, j)
  ELSE IF pattern[i] = "$" THEN j = Len(key) + 1 /\ MatchAt(pattern, i + 1, key, j)
  ELSE /\ j <= Len(key)
       /\ pattern[i] = "." \/ pattern[i] = key[j]
       /\ MatchAt(pattern, i + 1, key, j + 1)

(* new RegExp(pattern).test(key): a match starting anywhere in key *)
Test(pattern, key) == \E j \in 1..(Len(key) + 1) : MatchAt(pattern, 1, key, j)

(* The loop of invalidateCache over the keys still to visit. *)
RECURSIVE InvalidateLoop(_, _, _)
InvalidateLoop(m, pattern, keys) ==
  IF keys = {} THEN m
  ELSE LET key == CHOOSE k \in keys : TRUE
       IN InvalidateLoop(IF Test(pattern, key) THEN Delete(m, key) ELSE m,
                         pattern, keys \ {key})

NoGet == [key |-> <<>>, at |-> 0, found |-> <<>>, result |-> <<>>,
          written |-> <<>>]

CacheInit ==
  /\ cache = <<>>
  /\ lastGet = NoGet
  /\ lastSet = [k \in Keys |-> <<>>]
  /\ invalidated = <<>>

(* setCachedResult(key, result, customTtl) *)
SetCachedResult ==
  /\ \E key \in Keys, result \in Data, customTtl \in CustomTtls :
       /\ cache' = [x \in DOMAIN cache \cup {key} |->
                      IF x = key
                      THEN [data |-> result, timestamp |-> now,
                            ttl |-> TtlOf(customTtl)]
                      ELSE cache[x]]
       /\ lastSet' = [lastSet EXCEPT ![key] =
                        <<[data |-> result, at |-> now, customTtl |-> customTtl]>>]
  /\ invalidated' = <<>>
  /\ lastGet' = NoGet
  /\ UNCHANGED <<now, notCache>>

(* A getCachedResult that returns null for an expired entry and leaves it *)
(* in the map.                                                             *)
GetCachedResult_KeepsExpired ==
  /\ \E key \in Keys :
       LET cached == Found(key)
       IN /\ lastGet' = [key |-> key, at |-> now, found |-> cached,
                         result |-> IF cached # <<>> /\ Expired(cached[1], now)
                                    THEN <<>> ELSE cached,
                         written |-> lastSet[key]]
          /\ cache' = cache
  /\ invalidated' = <<>>
  /\ UNCHANGED <<now, lastSet, notCache>>

(* getCachedResult(key): null for a missing entry; an expired entry is     *)
(* deleted and null is returned; otherwise the entry is returned.          *)
GetCachedResult ==
  /\ \E key \in Keys :
       LET cached == Found(key)
       IN IF cached = <<>>
          THEN /\ lastGet' = [key |-> key, at |-> now, found |-> cached,
                              result |-> <<>>, written |-> lastSet[key]]
               /\ cache' = cache
          ELSE IF Expired(cached[1], now)
          THEN /\ lastGet' = [key |-> key, at |-> now, found |-> cached,
                              result |-> <<>>, written |-> lastSet[key]]
               /\ cache' = Delete(cache, key)
          ELSE /\ lastGet' = [key |-> key, at |-> now, found |-> cached,
                              result |-> cached, written |-> lastSet[key]]
               /\ cache' = cache
  /\ invalidated' = <<>>
  /\ UNCHANGED <<now, lastSet, notCache>>

(* clearCache() *)
ClearCache ==
  /\ cache # <<>>
  /\ cache' = <<>>
  /\ lastSet' = [k \in Keys |-> <<>>]
  /\ invalidated' = <<>>
  /\ lastGet' = NoGet
  /\ UNCHANGED <<now, notCache>>

(* invalidateCache(pattern): every key of the map is tested against the    *)
(* regular expression and deleted when it matches.                         *)
InvalidateCache ==
  /\ \E pattern \in Patterns :
       /\ cache' = InvalidateLoop(cache, pattern, DOMAIN cache)
       /\ lastSet' = [k \in Keys |-> IF Test(pattern, k) THEN <<>> ELSE lastSet[k]]
       /\ invalidated' = <<[pattern |-> pattern,
                             sizeBefore |-> Cardinality(DOMAIN cache)]>>
  /\ lastGet' = NoGet
  /\ UNCHANGED <<now, notCache>>

(* Time passes between two calls of the cache: the clock moves on to a     *)
(* later one of the instants a few ms after the start or after one ttl.    *)
Instants == (0..MaxFine) \cup {ttl + b : b \in 0..MaxFine}

CacheTick ==
  /\ \E t \in Instants :
       /\ t > now
       /\ now' = t
  /\ invalidated' = <<>>
  /\ lastGet' = NoGet
  /\ UNCHANGED <<cache, lastSet, notCache>>

----------------------------------------------------------------------------
(* The functions of QueryFanoutService that aggregate the results *)

NoCalc == [op |-> "none"]

(* The sequences over S of length at most n. *)
SeqsUpTo(S, n) == UNION {[1..k -> S] : k \in 0..n}

(* The items of a SERP result: "" stands for a url that is missing or      *)
(* empty, which JavaScript takes as false.                                 *)
Urls == {"", "u1", "u2"}
Titles == {"t1", "t2"}
SerpItems == [url : Urls, title : Titles]

(* A filter that never adds to seen. *)
RECURSIVE DedupFrom_NoAdd(_, _, _)
DedupFrom_NoAdd(results, i, seen) ==
  IF i > Len(results) THEN <<>>
  ELSE IF results[i].url # "" /\ results[i].url \notin seen
       THEN <<results[i]>> \o DedupFrom_NoAdd(results, i + 1, seen)
       ELSE DedupFrom_NoAdd(results, i + 1, seen)

(* results.filter(...) of removeDuplicateResults from the i-th result on,  *)
(* with the urls seen so far.                                              *)
RECURSIVE DedupFrom(_, _, _)
DedupFrom(results, i, seen) ==
  IF i > Len(results) THEN <<>>
  ELSE IF results[i].url # "" /\ results[i].url \notin seen
       THEN <<results[i]>> \o DedupFrom(results, i + 1, seen \cup {results[i].url})
       ELSE DedupFrom(results, i + 1, seen)

removeDuplicateResults(results) == DedupFrom(results, 1, {})

(* The outcome of one query in parallelResults: result is an array of SERP *)
(* items, or something that is not an array (null, or an object).          *)
NotArray == [isArray |-> FALSE, items |-> <<>>]
ArrayOf(items) == [isArray |-> TRUE, items |-> items]

ResultValues ==
  {NotArray, ArrayOf(<<>>)} \cup {ArrayOf(<<[url |-> u, title |-> "t1"]>>) : u \in Urls}

Outcomes == [success : BOOLEAN, result : ResultValues]

(* parallelResults.filter(r => r.success), or the filter of the others. *)
FilterSuccess(parallelResults, wanted) ==
  SelectSeq(parallelResults, LAMBDA r : r.success = wanted)

(* successfulResults.filter(array results).flatMap(r => r.result) *)
RECURSIVE FlatMapResults(_)
FlatMapResults(rs) ==
  IF rs = <<>> THEN <<>>
  ELSE (IF Head(rs).result.isArray THEN Head(rs).result.items ELSE <<>>)
         \o FlatMapResults(Tail(rs))

(* The counts in the object aggregateResults returns. *)
aggregateResults(parallelResults) ==
  LET successfulResults == FilterSuccess(parallelResults, TRUE)
      failedResults == FilterSuccess(parallelResults, FALSE)
      allSERPResults == FlatMapResults(successfulResults)
      uniqueResults == removeDuplicateResults(allSERPResults)
  IN [totalQueries |-> Len(parallelResults),
      successfulQueries |-> Len(successfulResults),
      failedQueries |-> Len(failedResults),
      uniqueResults |-> Len(uniqueResults)]

(* The number a / b, kept as the pair of a and b; 0 is 0 / 1. *)
Quotient(a, b) == [num |-> a, den |-> b]
Zero == Quotient(0, 1)

(* A success rate computed without the test for an empty list. *)
calculateSuccessRate_NoEmptyTest(parallelResults) ==
  Quotient(Len(FilterSuccess(parallelResults, TRUE)), Len(parallelResults))

calculateSuccessRate(parallelResults) ==
  IF Len(parallelResults) = 0 THEN Zero
  ELSE Quotient(Len(FilterSuccess(parallelResults, TRUE)), Len(parallelResults))

(* A call of one of the functions, on arguments of its choice. *)
CallRemoveDuplicateResults ==
  /\ calc = NoCalc
  /\ \E results \in SeqsUpTo(SerpItems, MaxSerp) :
       calc' = [op |-> "removeDuplicateResults", arg |-> results,
                out |-> removeDuplicateResults(results)]
  /\ UNCHANGED notCalc

CallAggregateResults ==
  /\ calc = NoCalc
  /\ \E parallelResults \in SeqsUpTo(Outcomes, MaxAggregated) :
       calc' = [op |-> "aggregateResults", arg |-> parallelResults,
                out |-> aggregateResults(parallelResults)]
  /\ UNCHANGED notCalc

CallCalculateSuccessRate ==
  /\ calc = NoCalc
  /\ \E parallelResults \in SeqsUpTo([success : BOOLEAN, result : {NotArray}], MaxOutcomes) :
       calc' = [op |-> "calculateSuccessRate", arg |-> parallelResults,
                out |-> calculateSuccessRate(parallelResults)]
  /\ UNCHANGED notCalc

(* expandQuery. A query string is the sequence of its parts; priorities    *)
(* are counted in tenths, so that 2 + index * 0.1 is 20 + index.           *)

SemanticSuffixes == <<"nasil", "nedir", "rehberi", "ipuclari", "ornekleri">>
FallbackSemanticSuffixes == <<"nasil", "nedir", "rehberi">>
LongTailSuffixes ==
  <<"nasil yapilir", "adim adim", "rehberi", "ipuclari", "ornekleri", "2024",
    "Turkiye", "en iyi", "karsilastirma", "degerlendirme">>

(* The competitors: a domain, and whether new URL(competitor.url) accepts  *)
(* the url.                                                                *)
Competitors == [domain : {"c.com"}, validUrl : BOOLEAN]

(* The options: includeX is false when the option is given as false;       *)
(* maxQueries is left out (given false) or a number.                       *)
MaxQueriesOptions ==
  {[given |-> FALSE, v |-> 0]} \cup {[given |-> TRUE, v |-> v] : v \in 0..MaxOption}

ExpandOptions ==
  [includeSemantic : BOOLEAN, includeLongTail : BOOLEAN,
   includeCompetitorAnalysis : BOOLEAN, maxQueries : MaxQueriesOptions]

(* variants.forEach((variant, index) => expanded.push({...})) *)
Variants(primaryQuery, suffixes, type, base) ==
  [i \in 1..Len(suffixes) |->
     [query |-> <<primaryQuery, suffixes[i]>>, type |-> type,
      priority |-> base + (i - 1)]]

(* generateCompetitorQueries: competitors.slice(0, 3).map(...) *)
CompetitorQueries(primaryQuery, competitors) ==
  [i \in 1..Len(Slice(competitors, 0, 3)) |->
     <<primaryQuery, competitors[i].domain, "karsilastirmasi">>]

(* A sort that puts the highest priority number first. *)
RECURSIVE SortByPriority_Descending(_)
SortByPriority_Descending(expanded) ==
  IF expanded = <<>> THEN <<>>
  ELSE LET x == expanded[Len(expanded)]
           sorted == SortByPriority_Descending(SubSeq(expanded, 1, Len(expanded) - 1))
           k == Cardinality({i \in 1..Len(sorted) : sorted[i].priority >= x.priority})
       IN SubSeq(sorted, 1, k) \o <<x>> \o SubSeq(sorted, k + 1, Len(sorted))

(* expanded.sort((a, b) => a.priority - b.priority): a stable sort, each   *)
(* element going behind those of lower or equal priority number.           *)
RECURSIVE SortByPriority(_)
SortByPriority(expanded) ==
  IF expanded = <<>> THEN <<>>
  ELSE LET x == expanded[Len(expanded)]
           sorted == SortByPriority(SubSeq(expanded, 1, Len(expanded) - 1))
           k == Cardinality({i \in 1..Len(sorted) : sorted[i].priority <= x.priority})
       IN SubSeq(sorted, 1, k) \o <<x>> \o SubSeq(sorted, k + 1, Len(sorted))

(* expandQuery(primaryQuery, competitors, options); aiOk tells whether the *)
(* AI call of generateSemanticVariants succeeds. The result is the list,   *)
(* or threw when new URL(...) rejects the url of a competitor.             *)
expandQuery(primaryQuery, competitors, options, aiOk) ==
  LET primary == <<[query |-> <<primaryQuery>>, type |-> "primary", priority |-> 10]>>
      semantic == IF options.includeSemantic
                  THEN Variants(primaryQuery,
                                IF aiOk THEN SemanticSuffixes
                                ELSE FallbackSemanticSuffixes,
                                "semantic", 20)
                  ELSE <<>>
      longtail == IF options.includeLongTail
                  THEN Variants(primaryQuery, LongTailSuffixes, "longtail", 30)
                  ELSE <<>>
      withCompetitors == options.includeCompetitorAnalysis /\ Len(competitors) > 0
      competitorQueries == CompetitorQueries(primaryQuery, competitors)
      competitor == IF withCompetitors
                    THEN [i \in 1..Len(competitorQueries) |->
                            [query |-> competitorQueries[i], type |-> "competitor",
                             priority |-> 40 + (i - 1)]]
                    ELSE <<>>
      expanded == primary \o semantic \o longtail \o competitor
      maxQueries == IF options.maxQueries.given /\ options.maxQueries.v # 0
                    THEN options.maxQueries.v ELSE maxParallelQueries
  IN IF withCompetitors
        /\ \E i \in 1..Len(competitorQueries) : ~competitors[i].validUrl
     THEN [threw |-> TRUE, queries |-> <<>>]
     ELSE [threw |-> FALSE, queries |-> Slice(SortByPriority(expanded), 0, maxQueries)]

CallExpandQuery ==
  /\ calc = NoCalc
  /\ \E competitors \in SeqsUpTo(Competitors, MaxCompetitors),
        options \in ExpandOptions, aiOk \in BOOLEAN :
       calc' = [op |-> "expandQuery",
                arg |-> [primaryQuery |-> "q", competitors |-> competitors,
                         options |-> options],
                out |-> expandQuery("q", competitors, options, aiOk)]
  /\ UNCHANGED notCalc

(* hasValidCache(key) at time t, cached being this.cache.get(key) *)
hasValidCache(cached, t) ==
  IF cached # <<>> THEN t - cached[1].timestamp < cached[1].ttl ELSE FALSE

(* What this.cache.get(key) may give: nothing, or an entry written by      *)
(* setCachedResult at one of the instants with one of the ttls.            *)
CachedEntries ==
  {<<>>} \cup {<<[data |-> "d1", timestamp |-> at, ttl |-> TtlOf(c)]>> :
                 at \in Instants, c \in CustomTtls}

CallHasValidCache ==
  /\ calc = NoCalc
  /\ \E cached \in CachedEntries, t \in Instants :
       /\ cached # <<>> => cached[1].timestamp <= t
       /\ calc' = [op |-> "hasValidCache", arg |-> [cached |-> cached, at |-> t],
                   out |-> hasValidCache(cached, t)]
  /\ UNCHANGED notCalc

(* createBatches(items, batchSize), for the sizes the runners use and      *)
(* small ones.                                                             *)
CallCreateBatches ==
  /\ calc = NoCalc
  /\ \E n \in 0..MaxQueries,
        size \in (1..MaxBatchSize) \cup {batchSize, concurrencyLimit} :
       calc' = [op |-> "createBatches",
                arg |-> [items |-> [i \in 1..n |-> i], batchSize |-> size],
                out |-> CreateBatches([i \in 1..n |-> i], size)]
  /\ UNCHANGED notCalc

----------------------------------------------------------------------------
(* QueryFanoutService.executeQueryFanout *)

(* What fetchSERPResults resolves with: an array of SERP items. *)
SerpResults == ArrayOf(<<[url |-> "u1", title |-> "t1"], [url |-> "u2", title |-> "t2"]>>)

(* What executeSingleQuery resolves with: the array for a primary or       *)
(* semantic query, an object that spreads the array for a long-tail or     *)
(* competitor query.                                                       *)
executeSingleQuery(type) ==
  IF type \in {"primary", "semantic"} THEN SerpResults ELSE NotArray

(* The object an item of a batch resolves with: the try branch when        *)
(* executeSingleQuery resolved, the catch branch when it rejected.         *)
FanoutItem(queryInfo, ok) ==
  [query |-> queryInfo.query, type |-> queryInfo.type,
   priority |-> queryInfo.priority,
   result |-> IF ok THEN executeSingleQuery(queryInfo.type) ELSE NotArray,
   success |-> ok]

(* successRate < 0.8, on the quotient *)
LessThanEightTenths(rate) == rate.num * 10 < 8 * rate.den

(* Steps 3 and 4 of executeQueryFanout and the object it returns. *)
NormalResult(primaryQuery, expandedQueries, parallelResults, startTime, t) ==
  LET successRate == calculateSuccessRate(parallelResults)
  IN [primaryQuery |-> primaryQuery,
      expandedQueries |-> [k \in 1..Len(expandedQueries) |-> expandedQueries[k].query],
      parallelResults |-> parallelResults,
      aggregatedData |-> aggregateResults(parallelResults),
      executionTime |-> t - startTime,
      successRate |-> successRate,
      fallbackUsed |-> LessThanEightTenths(successRate)]

getFallbackResult(primaryQuery, startTime, t) ==
  [primaryQuery |-> primaryQuery,
   expandedQueries |-> << <<primaryQuery>> >>,
   parallelResults |-> <<>>,
   aggregatedData |-> [totalQueries |-> 1, successfulQueries |-> 0,
                       failedQueries |-> 1, uniqueResults |-> 0],
   executionTime |-> t - startTime,
   successRate |-> Zero,
   fallbackUsed |-> TRUE]

(* The promise of executeQueryFanout *)
Resolved(value) == [status |-> "resolved", value |-> value]
Rejected == [status |-> "rejected"]
Unsettled == [status |-> "pending"]

(* An executeQueryFanout without its catch block. *)
FanoutCatch_Rethrows(primaryQuery, startTime, t) == Rejected

(* The catch block of executeQueryFanout *)
FanoutCatch(primaryQuery, startTime, t) ==
  Resolved(getFallbackResult(primaryQuery, startTime, t))

(* No call of executeQueryFanout has been made. *)
FanoutIdle == [pc |-> "idle"]

(* The options of a call that gives none. *)
NoOptions ==
  [includeSemantic |-> TRUE, includeLongTail |-> TRUE,
   includeCompetitorAnalysis |-> TRUE, maxQueries |-> [given |-> FALSE, v |-> 0]]

FanoutInit == fanout = FanoutIdle

(* The options of the calls: maxQueries left out, or up to MaxFanoutOption *)
FanoutOptions ==
  {o \in ExpandOptions : o.maxQueries.given => o.maxQueries.v <= MaxFanoutOption}

(* executeQueryFanout up to the await of generateSemanticVariants *)
FanoutCall ==
  /\ fanout.pc = "idle"
  /\ \E competitors \in SeqsUpTo(Competitors, MaxFanoutCompetitors),
        options \in FanoutOptions :
       fanout' = [pc |-> "expand", primaryQuery |-> "q",
                  competitors |-> competitors, options |-> options,
                  startTime |-> now, expandedQueries |-> <<>>, i |-> 0,
                  settled |-> <<>>, results |-> <<>>, promise |-> Unsettled,
                  startedAt |-> 0,   \* history: when the items of the batch
                                     \*          were started
                  threw |-> FALSE]   \* history: the try block threw
  /\ UNCHANGED <<now, notFanout>>

(* const batch = queries.slice(i, i + batchSize) *)
FanoutBatch(f) == Slice(f.expandedQueries, f.i, f.i + batchSize)

(* The rest of expandQuery; when it throws, the catch block; else          *)
(* executeParallelQueries up to the await of the first batch.              *)
FanoutExpanded ==
  /\ fanout.pc = "expand"
  /\ \E aiOk \in BOOLEAN :
       LET expanded == expandQuery(fanout.primaryQuery, fanout.competitors,
                                   fanout.options, aiOk)
           cleared == [fanout EXCEPT !.competitors = <<>>,
                                     !.options = NoOptions]
       IN fanout' =
            IF expanded.threw
            THEN [cleared EXCEPT
                    !.pc = "returned", !.threw = TRUE,
                    !.promise = FanoutCatch(fanout.primaryQuery, fanout.startTime, now)]
            ELSE [cleared EXCEPT
                    !.pc = "batch", !.expandedQueries = expanded.queries,
                    !.i = 0, !.startedAt = now,
                    !.settled = [j \in 1..Min(batchSize, Len(expanded.queries))
                                   |-> Pending("op", FALSE)]]
  /\ UNCHANGED <<now, notFanout>>

(* executeSingleQuery of item j resolves or rejects, and the item's        *)
(* promise is fulfilled with the object of the try or the catch branch.    *)
FanoutItemSettles ==
  /\ fanout.pc = "batch"
  /\ \E j \in 1..Len(fanout.settled), ok \in BOOLEAN :
       /\ fanout.settled[j].status = "pending"
       /\ fanout' = [fanout EXCEPT
                       !.settled[j] = Fulfilled(FanoutItem(FanoutBatch(fanout)[j], ok))]
  /\ UNCHANGED <<now, notFanout>>

(* Promise.allSettled resolves and the forEach pushes the values; then the *)
(* delay between batches starts or, after the last batch, the results are  *)
(* aggregated and executeQueryFanout returns.                              *)
FanoutBatchJoined ==
  /\ fanout.pc = "batch"
  /\ \A j \in 1..Len(fanout.settled) : fanout.settled[j].status # "pending"
  /\ LET results == Collect("fanout", fanout.results, FanoutBatch(fanout),
                            fanout.settled, 1)
     IN fanout' =
          IF fanout.i + batchSize < Len(fanout.expandedQueries)
          THEN [fanout EXCEPT !.pc = "delay", !.results = results, !.settled = <<>>]
          ELSE [fanout EXCEPT
                  !.pc = "returned", !.results = results, !.settled = <<>>,
                  !.promise = Resolved(NormalResult(fanout.primaryQuery,
                                                    fanout.expandedQueries, results,
                                                    fanout.startTime, now))]
  /\ UNCHANGED <<now, notFanout>>

(* The timer between batches fires and the items of the next batch start. *)
FanoutDelayElapsed ==
  /\ fanout.pc = "delay"
  /\ now + batchDelay <= MaxFanoutNow
  /\ now' = now + batchDelay
  /\ LET next == [fanout EXCEPT !.i = fanout.i + batchSize]
     IN fanout' = [next EXCEPT
                     !.pc = "batch", !.startedAt = now',
                     !.settled = [j \in 1..Len(FanoutBatch(next)) |-> Pending("op", FALSE)]]
  /\ UNCHANGED notFanout

(* Time passes while items of the batch are awaited: no timer runs         *)
(* beside them.                                                            *)
FanoutWaits ==
  /\ fanout.pc = "batch"
  /\ \E j \in 1..Len(fanout.settled) : fanout.settled[j].status = "pending"
  /\ now + queryTimeout + 1 <= MaxFanoutNow
  /\ now' = now + queryTimeout + 1
  /\ UNCHANGED <<fanout, notFanout>>

----------------------------------------------------------------------------
(* ReferralService.useCredits (src/services/referralService.ts): the       *)
(* documents of one referral code in the Firestore collections             *)
(* 'tokenUsage' and 'referral-codes', and the useCredits calls in flight.  *)
(* A getDoc reads the document when it resolves and an updateDoc applies   *)
(* its increment when it resolves; a rejected updateDoc has written        *)
(* nothing.                                                                *)

(* `data.tokenLimit || 1000000` *)
DefaultCreditLimit == 1000000

(* x || d, for numbers. *)
OrDefault(x, d) == IF x = 0 THEN d ELSE x

(* A snapshot whose exists() is false. *)
NoDoc == [exists |-> FALSE]

(* The documents the code can find under a referral code: in 'tokenUsage'  *)
(* a document with tokenLimit and totalTokens, in 'referral-codes' the     *)
(* document createReferralCode writes, with some of its credits used.      *)
TokenUsageDocs ==
  {[exists |-> TRUE, tokenLimit |-> l, totalTokens |-> t] :
     l \in 1..MaxCredits, t \in 0..MaxCredits}

ReferralCodeDocs ==
  {[exists |-> TRUE, isActive |-> a, creditLimit |-> l,
    creditsUsed |-> u, creditsRemaining |-> l - u] :
     a \in BOOLEAN, l \in 1..MaxCredits, u \in 0..MaxCredits}

(* What validateReferralCode returns when it finds no document or catches  *)
(* an error.                                                               *)
Null == [null |-> TRUE]

(* What validateReferralCode makes of the document it has found. *)
FromSnapshot(data) ==
  IF "tokenLimit" \in DOMAIN data
  THEN [null |-> FALSE,
        isActive |-> TRUE,
        creditsRemaining |-> OrDefault(data.tokenLimit, DefaultCreditLimit)
                               - OrDefault(data.totalTokens, 0)]
  ELSE [null |-> FALSE,
        isActive |-> data.isActive,
        creditsRemaining |-> data.creditsRemaining]

(* A test that does not look at isActive. *)
CreditRefused_IgnoresActive(referralCode, creditsUsed) ==
  \/ referralCode.null
  \/ referralCode.creditsRemaining < creditsUsed

(* The test useCredits makes of the validated code before it writes. *)
CreditRefused(referralCode, creditsUsed) ==
  \/ referralCode.null
  \/ ~referralCode.isActive
  \/ referralCode.creditsRemaining < creditsUsed

(* No document has been stored and no call made. *)
CreditsIdle == [last |-> <<>>]

CreditsInit == credits = CreditsIdle

Provisioned == "calls" \in DOMAIN credits

(* The documents of the code are stored: none, one or both. *)
Provision ==
  /\ ~Provisioned
  /\ \E t \in TokenUsageDocs \cup {NoDoc}, r \in ReferralCodeDocs \cup {NoDoc} :
       /\ t.exists => t.totalTokens <= t.tokenLimit
       /\ r.exists => r.creditsRemaining >= 0
       /\ credits' = [tokenUsage |-> t, referralCodes |-> r,
                      calls |-> EmptyBag, made |-> 0, last |-> <<>>]
  /\ UNCHANGED notCredits

(* The useCredits calls in flight. *)
CreditCalls == IF Provisioned THEN BagToSet(credits.calls) ELSE {}

(* The calls in flight with call c replaced by d. *)
CreditsResume(c, d) == (credits.calls (-) SetToBag({c})) (+) SetToBag({d})

(* Call c returns out. *)
CreditsReturn(c, out, tokenUsage, referralCodes, referralCode, writes) ==
  credits' = [credits EXCEPT
                !.tokenUsage = tokenUsage,
                !.referralCodes = referralCodes,
                !.calls = @ (-) SetToBag({c}),
                !.last = <<[creditsUsed |-> c.creditsUsed,
                            referralCode |-> referralCode,
                            out |-> out,
                            writes |-> writes]>>]

(* useCredits(code, creditsUsed) up to its first await, the getDoc of the  *)
(* 'tokenUsage' document in validateReferralCode.                          *)
UseCredits ==
  /\ Provisioned
  /\ credits.made < MaxUseCalls
  /\ \E n \in 1..MaxCredits :
       credits' = [credits EXCEPT
                     !.calls = @ (+) SetToBag({[pc |-> "get1",
                                                creditsUsed |-> n,
                                                referralCode |-> Null]}),
                     !.made = @ + 1,
                     !.last = <<>>]
  /\ UNCHANGED notCredits

(* validateReferralCode has returned referralCode to call c: the call      *)
(* returns false or goes on to the updateDoc of the 'tokenUsage' document. *)
Validated(c, referralCode) ==
  IF CreditRefused(referralCode, c.creditsUsed)
  THEN CreditsReturn(c, FALSE, credits.tokenUsage, credits.referralCodes,
                     referralCode, 0)
  ELSE credits' = [credits EXCEPT
                     !.calls = CreditsResume(c, [c EXCEPT
                                                   !.pc = "upd1",
                                                   !.referralCode = referralCode]),
                     !.last = <<>>]

(* The getDoc of the 'tokenUsage' document resolves. *)
Get1Resolves(c) ==
  /\ c.pc = "get1"
  /\ IF credits.tokenUsage.exists
     THEN Validated(c, FromSnapshot(credits.tokenUsage))
     ELSE credits' = [credits EXCEPT
                        !.calls = CreditsResume(c, [c EXCEPT !.pc = "get2"]),
                        !.last = <<>>]
  /\ UNCHANGED notCredits

(* The getDoc of the 'referral-codes' document resolves. *)
Get2Resolves(c) ==
  /\ c.pc = "get2"
  /\ IF credits.referralCodes.exists
     THEN Validated(c, FromSnapshot(credits.referralCodes))
     ELSE Validated(c, Null)
  /\ UNCHANGED notCredits

(* A getDoc rejects: validateReferralCode catches and returns null. *)
GetRejects(c) ==
  /\ c.pc \in {"get1", "get2"}
  /\ Validated(c, Null)
  /\ UNCHANGED notCredits

(* The updateDoc of the 'tokenUsage' document resolves: totalTokens has    *)
(* been incremented and the call returns true.                             *)
Upd1Resolves(c) ==
  /\ c.pc = "upd1"
  /\ credits.tokenUsage.exists
  /\ CreditsReturn(c, TRUE,
                   [credits.tokenUsage EXCEPT !.totalTokens = @ + c.creditsUsed],
                   credits.referralCodes, c.referralCode, 1)
  /\ UNCHANGED notCredits

(* The updateDoc of the 'tokenUsage' document rejects, as it does when     *)
(* there is no such document: the call goes on to the updateDoc of the     *)
(* 'referral-codes' document.                                              *)
Upd1Rejects(c) ==
  /\ c.pc = "upd1"
  /\ credits' = [credits EXCEPT
                   !.calls = CreditsResume(c, [c EXCEPT !.pc = "upd2"]),
                   !.last = <<>>]
  /\ UNCHANGED notCredits

(* The updateDoc of the 'referral-codes' document resolves. *)
Upd2Resolves(c) ==
  /\ c.pc = "upd2"
  /\ credits.referralCodes.exists
  /\ CreditsReturn(c, TRUE, credits.tokenUsage,
                   [credits.referralCodes EXCEPT
                      !.creditsUsed = @ + c.creditsUsed,
                      !.creditsRemaining = @ - c.creditsUsed],
                   c.referralCode, 1)
  /\ UNCHANGED notCredits

(* The updateDoc of the 'referral-codes' document rejects: the outer catch *)
(* returns false.                                                          *)
Upd2Rejects(c) ==
  /\ c.pc = "upd2"
  /\ CreditsReturn(c, FALSE, credits.tokenUsage, credits.referralCodes,
                   c.referralCode, 0)
  /\ UNCHANGED notCredits

----------------------------------------------------------------------------
(* GeminiAIService.generateContentStrategy (src/unnamed/part_003): the     *)
(* service object and the calls that have passed its isGenerating test.    *)

(* modelOrder.length *)
ModelCount == 6

(* this.models after initializeAI: <<>> for {}, else by position in        *)
(* modelOrder whether the entry is a model (TRUE) or null (FALSE).         *)
ModelMaps == {<<>>} \cup [1..ModelCount -> BOOLEAN]

(* Object.keys(this.models).filter(key => this.models[key] !== null) *)
NonNullKeys(models) == {i \in DOMAIN models : models[i]}

(* getCurrentModel: "throws" when modelOrder has no entry that is !== null *)
(* in this.models, else what it returns, a model or, for an entry that is  *)
(* not in this.models, undefined.                                          *)
getCurrentModel(models) ==
  IF models = <<>> THEN "undefined"
  ELSE IF NonNullKeys(models) = {} THEN "throws"
  ELSE "model"

(* The loop of tryWithFallback from attempt on, up to its next await or    *)
(* its end: an attempt that gets no model to call fails at once with an    *)
(* error that is not a quota error.                                        *)
RECURSIVE TryFrom(_, _, _)
TryFrom(models, attempt, index) ==
  IF attempt >= ModelCount
  THEN [pc |-> "failed", attempt |-> attempt, index |-> index]
  ELSE IF getCurrentModel(models) = "model"
       THEN [pc |-> "model", attempt |-> attempt, index |-> index]
       ELSE TryFrom(models, attempt + 1, (index + 1) % ModelCount)

(* The service object after construction without an API key. *)
GeminiNew ==
  [isGenerating |-> FALSE, models |-> <<>>, currentModelIndex |-> 0,
   calls |-> EmptyBag, last |-> <<>>]

GeminiInit == gemini = GeminiNew

(* A finally block that leaves the flag as it is. *)
Finally_KeepsFlag(g) == g

(* The finally block of generateContentStrategy. *)
Finally(g) == [g EXCEPT !.isGenerating = FALSE]

(* What a call returns with: the analysis of the model ("ai") or the       *)
(* static template of getFallbackAnalysis ("fallback"); busy tells whether *)
(* another call was in progress when this one started, invoked how many    *)
(* times it has called a model.                                            *)
GeminiReturn(out, busy, invoked) ==
  <<[out |-> out, busy |-> busy, invoked |-> invoked]>>

(* initializeAI(apiKey) *)
InitializeAI ==
  /\ \E m \in ModelMaps :
       gemini' = [gemini EXCEPT !.models = m, !.last = <<>>]
  /\ UNCHANGED notGemini

(* Call c goes on in tryWithFallback from attempt on. *)
GeminiContinue(c, attempt, index) ==
  LET t == TryFrom(gemini.models, attempt, index)
  IN IF t.pc = "failed"
     THEN gemini' = [Finally(gemini) EXCEPT
                       !.currentModelIndex = t.index,
                       !.calls = @ (-) SetToBag({c}),
                       !.last = GeminiReturn("fallback", FALSE, c.invoked)]
     ELSE gemini' = [gemini EXCEPT
                       !.currentModelIndex = t.index,
                       !.calls = (@ (-) SetToBag({c})) (+)
                                 SetToBag({[pc |-> "model",
                                            attempt |-> t.attempt,
                                            invoked |-> c.invoked + 1]}),
                       !.last = <<>>]

(* generateContentStrategy up to its first await or, when it has none, to  *)
(* its return.                                                             *)
GenerateContentStrategy ==
  /\ BagCardinality(gemini.calls) < MaxGenerating
  /\ IF gemini.isGenerating
     THEN gemini' = [gemini EXCEPT
                       !.last = GeminiReturn("fallback",
                                             gemini.calls # EmptyBag, 0)]
     ELSE IF NonNullKeys(gemini.models) = {}
          THEN gemini' = [gemini EXCEPT
                            !.isGenerating = FALSE,
                            !.last = GeminiReturn("fallback",
                                                  gemini.calls # EmptyBag, 0)]
          ELSE LET t == TryFrom(gemini.models, 0, gemini.currentModelIndex)
               IN gemini' = [gemini EXCEPT
                               !.isGenerating = TRUE,
                               !.currentModelIndex = t.index,
                               !.calls = @ (+)
                                 SetToBag({[pc |-> "model",
                                            attempt |-> t.attempt,
                                            invoked |-> 1]}),
                               !.last = <<>>]
  /\ UNCHANGED notGemini

(* The model answers call c: the text parses as JSON and the call returns  *)
(* the analysis, or JSON.parse throws and the catch returns the template.  *)
ModelResolves(c) ==
  /\ c.pc = "model"
  /\ \E out \in {"ai", "fallback"} :
       gemini' = [Finally(gemini) EXCEPT
                    !.calls = @ (-) SetToBag({c}),
                    !.last = GeminiReturn(out, FALSE, c.invoked)]
  /\ UNCHANGED notGemini

(* The model fails call c with a quota error: the next model is selected   *)
(* and, unless this was the last attempt, the call waits for the backoff.  *)
ModelRejectsQuota(c) ==
  /\ c.pc = "model"
  /\ LET index == (gemini.currentModelIndex + 1) % ModelCount
     IN IF c.attempt < ModelCount - 1
        THEN gemini' = [gemini EXCEPT
                          !.currentModelIndex = index,
                          !.calls = (@ (-) SetToBag({c})) (+)
                                    SetToBag({[c EXCEPT !.pc = "delay"]}),
                          !.last = <<>>]
        ELSE GeminiContinue(c, c.attempt + 1, index)
  /\ UNCHANGED notGemini

(* The model fails call c with another error: the next model is tried at   *)
(* once.                                                                   *)
ModelRejectsOther(c) ==
  /\ c.pc = "model"
  /\ GeminiContinue(c, c.attempt + 1,
                    (gemini.currentModelIndex + 1) % ModelCount)
  /\ UNCHANGED notGemini

(* The backoff of call c has elapsed. *)
GeminiDelayElapsed(c) ==
  /\ c.pc = "delay"
  /\ GeminiContinue(c, c.attempt + 1, gemini.currentModelIndex)
  /\ UNCHANGED notGemini

----------------------------------------------------------------------------
(* Circuit breaker *)

FreshState == [failures |-> 0, lastFailureTime |-> 0, state |-> "CLOSED"]

(* A gate that closes the breaker once the timeout has elapsed. *)
Gate_ClosesAfterTimeout(cs, t) ==
  IF cs.state = "OPEN"
  THEN IF t - cs.lastFailureTime > RecoveryTimeout
       THEN [cs |-> [cs EXCEPT !.state = "CLOSED"], pass |-> TRUE]
       ELSE [cs |-> cs, pass |-> FALSE]
  ELSE [cs |-> cs, pass |-> TRUE]

(* The gate at the head of executeWithCircuitBreaker: the state the object *)
(* is left in, and whether the operation is attempted.                     *)
Gate(cs, t) ==
  IF cs.state = "OPEN"
  THEN IF t - cs.lastFailureTime > RecoveryTimeout
       THEN [cs |-> [cs EXCEPT !.state = "HALF_OPEN"], pass |-> TRUE]
       ELSE [cs |-> cs, pass |-> FALSE]
  ELSE [cs |-> cs, pass |-> TRUE]

(* A success branch that closes the breaker and keeps the failure count. *)
OnSuccess_KeepsCount(cs) ==
  IF cs.state = "HALF_OPEN" THEN [cs EXCEPT !.state = "CLOSED"] ELSE cs

(* The success branch: reset a HALF_OPEN breaker. *)
OnSuccess(cs) ==
  IF cs.state = "HALF_OPEN"
  THEN [cs EXCEPT !.state = "CLOSED", !.failures = 0]
  ELSE cs

(* A catch branch that opens only above the threshold. *)
OnFailure_OpensLate(cs, t) ==
  LET n == cs.failures + 1
  IN [failures |-> n,
      lastFailureTime |-> t,
      state |-> IF n > FailureThreshold THEN "OPEN" ELSE cs.state]

(* The catch branch: count the failure, open at the threshold. *)
OnFailure(cs, t) ==
  LET n == cs.failures + 1
  IN [failures |-> n,
      lastFailureTime |-> t,
      state |-> IF n >= FailureThreshold THEN "OPEN" ELSE cs.state]

(* A call without the catch branch: the error of executeWithRetry escapes. *)
CallResult_NoCatch(passed, opOk) ==
  IF ~passed THEN "fallback"
  ELSE IF opOk THEN "op" ELSE "rejected"

(* What the call resolves with: "op" is the operation's result, "fallback" *)
(* the fallback's, "rejected" a rejection.                                 *)
CallResult(passed, opOk) ==
  IF ~passed THEN "fallback"
  ELSE IF opOk THEN "op" ELSE "fallback"

InFlight == BagCardinality(calls)

(* The state stored under 'default', FreshState while nothing is stored. *)
Stored == IF circuitBreakers = 0 THEN FreshState ELSE heap[circuitBreakers]

(* The calls in flight with call c replaced by d. *)
Resume(c, d) == (calls (-) SetToBag({c})) (+) SetToBag({d})

Init ==
  /\ now = 0
  /\ circuitBreakers = 0
  /\ heap = <<>>
  /\ calls = EmptyBag
  /\ started = 0
  /\ failedCalls = 0
  /\ ret = [result |-> "none", via |-> "none"]
  /\ RetryInit
  /\ BatchInit
  /\ CacheInit
  /\ calc = NoCalc
  /\ FanoutInit
  /\ CreditsInit
  /\ GeminiInit

(* A call of executeWithCircuitBreaker, up to its first await: the lookup  *)
(* of the state object (a new object when nothing is stored), the gate,    *)
(* and either the fallback or the first attempt of executeWithRetry.       *)
StartCall(max) ==
  /\ InFlight < MaxInflight
  /\ started < max
  /\ LET o == IF circuitBreakers = 0 THEN Len(heap) + 1 ELSE circuitBreakers
         cs == IF circuitBreakers = 0 THEN FreshState ELSE heap[o]
         g == Gate(cs, now)
     IN /\ heap' = IF circuitBreakers = 0
                   THEN Append(heap, g.cs)
                   ELSE [heap EXCEPT ![o] = g.cs]
        /\ calls' = calls (+) SetToBag({
             [pc |-> IF g.pass THEN "op" ELSE "fb",
              obj |-> o,
              attempt |-> 0,
              invoked |-> IF g.pass THEN 1 ELSE 0,
              passed |-> g.pass,
              trial |-> (cs.state = "OPEN" /\ g.pass)]})
  /\ started' = started + 1
  /\ UNCHANGED <<now, circuitBreakers, failedCalls, ret, notBreaker>>

Start == StartCall(MaxCalls)

(* operation() resolves: executeWithRetry returns, the success branch runs *)
(* and the call returns the result.                                        *)
OpSucceeds(c) ==
  /\ c.pc = "op"
  /\ heap' = [heap EXCEPT ![c.obj] = OnSuccess(heap[c.obj])]
  /\ circuitBreakers' = c.obj
  /\ ret' = [result |-> CallResult(c.passed, TRUE), via |-> c.pc]
  /\ calls' = calls (-) SetToBag({c})
  /\ UNCHANGED <<now, started, failedCalls, notBreaker>>

(* operation() rejects on an attempt that is not the last: executeWithRetry *)
(* starts the backoff timer.                                                *)
OpFailsRetry(c) ==
  /\ c.pc = "op"
  /\ ~IsLastAttempt(c.attempt)
  /\ calls' = Resume(c, [c EXCEPT !.pc = "delay"])
  /\ UNCHANGED <<now, circuitBreakers, heap, started, failedCalls, ret, notBreaker>>

(* The backoff timer fires: the next attempt invokes operation(). *)
DelayDone(c) ==
  /\ c.pc = "delay"
  /\ calls' = Resume(c, [c EXCEPT !.pc = "op",
                                  !.attempt = @ + 1,
                                  !.invoked = @ + 1])
  /\ UNCHANGED <<now, circuitBreakers, heap, started, failedCalls, ret, notBreaker>>

(* operation() rejects on the last attempt: executeWithRetry throws, the   *)
(* catch branch runs and calls the fallback.                               *)
OpFailsLast(c) ==
  /\ c.pc = "op"
  /\ IsLastAttempt(c.attempt)
  /\ heap' = [heap EXCEPT ![c.obj] = OnFailure(heap[c.obj], now)]
  /\ circuitBreakers' = c.obj
  /\ calls' = Resume(c, [c EXCEPT !.pc = "fb"])
  /\ failedCalls' = failedCalls + 1
  /\ UNCHANGED <<now, started, ret, notBreaker>>

(* fallback() resolves and the call returns its result. *)
FallbackDone(c) ==
  /\ c.pc = "fb"
  /\ ret' = [result |-> CallResult(c.passed, FALSE), via |-> c.pc]
  /\ calls' = calls (-) SetToBag({c})
  /\ UNCHANGED <<now, circuitBreakers, heap, started, failedCalls, notBreaker>>

----------------------------------------------------------------------------
(* The batch runners' steps *)

PendingItems == {j \in 1..Len(batch.settled) : batch.settled[j].status = "pending"}

(* The gates of k calls started one after the other in one synchronous     *)
(* block on the same state object: the state it is left in, whether each   *)
(* call attempts its operation, and the state each call saw.               *)
RECURSIVE GateEach(_, _, _)
GateEach(cs, t, k) ==
  IF k = 0 THEN [cs |-> cs, pass |-> <<>>, seen |-> <<>>]
  ELSE LET g == Gate(cs, t)
           rest == GateEach(g.cs, t, k - 1)
       IN [cs |-> rest.cs, pass |-> <<g.pass>> \o rest.pass,
           seen |-> <<cs>> \o rest.seen]

(* The batch cur starts: batch.map(...) makes one promise per item. Under  *)
(* "brief" every item enters executeWithCircuitBreaker, which runs up to   *)
(* its first await: the gate, then the first attempt or the fallback.      *)
StartBatch(b, pos, cur, t) ==
  IF b.runner = "fanout"
  THEN /\ batch' = [b EXCEPT !.pc = "await", !.pos = pos, !.cur = cur,
                             !.settled = [j \in 1..Len(cur) |-> Pending("op", FALSE)]]
       /\ heap' = heap
  ELSE LET own == circuitBreakers = 0
           gates == IF own
                    THEN [cs |-> FreshState,
                          pass |-> [j \in 1..Len(cur) |-> Gate(FreshState, t).pass],
                          seen |-> [j \in 1..Len(cur) |-> FreshState]]
                    ELSE GateEach(Stored, t, Len(cur))
           Refused(j) ==
             IF /\ gates.seen[j].state = "OPEN"
                /\ t - gates.seen[j].lastFailureTime <= RecoveryTimeout
             THEN "skipped" ELSE "refused"
       IN /\ batch' = [b EXCEPT
               !.pc = "await", !.pos = pos, !.cur = cur,
               !.settled = [j \in 1..Len(cur) |->
                              Pending(IF gates.pass[j] THEN "op" ELSE "fb", own)],
               !.opOk = [i \in 1..Len(b.queries) |->
                           IF \E j \in 1..Len(cur) : cur[j] = i /\ ~gates.pass[j]
                           THEN Refused(CHOOSE j \in 1..Len(cur) : cur[j] = i)
                           ELSE b.opOk[i]]]
          /\ heap' = IF own THEN heap
                     ELSE [heap EXCEPT ![circuitBreakers] = gates.cs]

(* The lengths of the query lists the runners are called with: the short  *)
(* ones, and the longest one.                                              *)
QueryCounts == {n \in 0..MaxQueries : n <= 2 * batchSize \/ n = MaxQueries}

(* A runner is called with n queries; it runs up to its first await: the   *)
(* first batch is started, or results is returned when there is none.      *)
BatchCall ==
  /\ batch.pc = "idle"
  /\ \E runner \in Runners, n \in QueryCounts :
       LET queries == [i \in 1..n |-> i]
           b == [batch EXCEPT !.runner = runner, !.queries = queries,
                              !.opOk = [i \in 1..n |-> "none"]]
       IN IF runner = "fanout"
          THEN IF 0 < Len(queries)
               THEN StartBatch(b, 0, Slice(queries, 0, 0 + batchSize), now)
               ELSE batch' = [b EXCEPT !.pc = "done"] /\ heap' = heap
          ELSE LET batches == CreateBatches(queries, concurrencyLimit)
               IN IF batches = <<>>
                  THEN batch' = [b EXCEPT !.pc = "done"] /\ heap' = heap
                  ELSE StartBatch([b EXCEPT !.batches = batches], 1, batches[1], now)
  /\ UNCHANGED <<now, circuitBreakers, notBatch>>

(* The state object of pending item j, and the map after the item's call   *)
(* has done set('default', state) with the object changed to cs.           *)
ItemState(j) == IF batch.settled[j].own THEN FreshState ELSE Stored

ItemSets(j, cs) ==
  IF batch.runner = "fanout"
  THEN UNCHANGED <<heap, circuitBreakers>>
  ELSE IF batch.settled[j].own
       THEN heap' = <<cs>> /\ circuitBreakers' = 1
       ELSE heap' = [heap EXCEPT ![circuitBreakers] = cs] /\ UNCHANGED circuitBreakers

(* The operation of item j succeeds (under "brief": some attempt of its    *)
(* executeWithRetry does): the promise is fulfilled with the result.       *)
ItemSucceeds ==
  /\ batch.pc = "await"
  /\ \E j \in PendingItems :
       /\ batch.settled[j].at = "op"
       /\ batch' = [batch EXCEPT
            !.settled[j] = Fulfilled(QueryResult(batch.cur[j], TRUE)),
            !.outOfOrder = @ \/ \E i \in PendingItems : i < j,
            !.opOk[batch.cur[j]] = "ok"]
       /\ ItemSets(j, OnSuccess(ItemState(j)))
  /\ UNCHANGED <<now, notBatch>>

(* The operation of item j fails (under "brief": every attempt of its      *)
(* executeWithRetry has): the catch block runs and the promise is          *)
(* fulfilled with the fallback or failure record.                          *)
ItemFails ==
  /\ batch.pc = "await"
  /\ \E j \in PendingItems :
       /\ batch.settled[j].at = "op"
       /\ batch' = [batch EXCEPT
            !.settled[j] = Fulfilled(QueryResult(batch.cur[j], FALSE)),
            !.outOfOrder = @ \/ \E i \in PendingItems : i < j,
            !.opOk[batch.cur[j]] = "failed"]
       /\ ItemSets(j, OnFailure(ItemState(j), now))
  /\ UNCHANGED <<now, notBatch>>

(* Item j, refused by the breaker, is fulfilled with its fallback. *)
ItemFallsBack ==
  /\ batch.pc = "await"
  /\ \E j \in PendingItems :
       /\ batch.settled[j].at = "fb"
       /\ batch' = [batch EXCEPT
            !.settled[j] = Fulfilled(QueryResult(batch.cur[j], FALSE)),
            !.outOfOrder = @ \/ \E i \in PendingItems : i < j]
  /\ UNCHANGED <<now, heap, circuitBreakers, notBatch>>

(* A test that takes the batch before the last for the last. *)
MoreBatches_StopsEarly(b) ==
  IF b.runner = "fanout"
  THEN b.pos + batchSize < Len(b.queries) - batchSize
  ELSE b.pos - 1 < Len(b.batches) - 2

(* Whether another batch follows the one at pos. *)
MoreBatches(b) ==
  IF b.runner = "fanout"
  THEN b.pos + batchSize < Len(b.queries)
  ELSE b.pos - 1 < Len(b.batches) - 1

(* Promise.allSettled resolves once every item has settled: the results    *)
(* are pushed in the order of the batch, then the runner waits before the  *)
(* next batch or returns.                                                  *)
BatchJoined ==
  /\ batch.pc = "await"
  /\ PendingItems = {}
  /\ LET results == Collect(batch.runner, batch.results, batch.cur, batch.settled, 1)
     IN batch' = [batch EXCEPT
          !.results = results,
          !.settled = <<>>,
          !.pc = IF MoreBatches(batch) THEN "delay" ELSE "done",
          !.delays = IF MoreBatches(batch) THEN @ + 1 ELSE @]
  /\ UNCHANGED <<now, heap, circuitBreakers, notBatch>>

(* The timer between two batches fires, batchDelay or more after it was    *)
(* set, and the next batch starts.                                         *)
DelaySteps == {batchDelay, RecoveryTimeout + 1}

BatchDelayElapsed ==
  /\ batch.pc = "delay"
  /\ \E d \in DelaySteps :
       /\ now + d <= MaxNow
       /\ now' = now + d
  /\ IF batch.runner = "fanout"
     THEN StartBatch(batch, batch.pos + batchSize,
                     Slice(batch.queries, batch.pos + batchSize,
                           batch.pos + batchSize + batchSize), now')
     ELSE StartBatch(batch, batch.pos + 1, batch.batches[batch.pos + 1], now')
  /\ UNCHANGED <<circuitBreakers, notBatch>>

(* A call of executeWithCircuitBreaker made and finished before the        *)
(* runner is called, with nothing else in flight.                          *)
EarlierCall ==
  /\ batch.pc = "idle"
  /\ LET g == Gate(Stored, now)
     IN /\ g.pass
        /\ \E ok \in BOOLEAN :
             heap' = <<IF ok THEN OnSuccess(g.cs) ELSE OnFailure(g.cs, now)>>
        /\ circuitBreakers' = 1
  /\ UNCHANGED <<now, batch, notBatch>>

----------------------------------------------------------------------------

(* The breaker compares the time since the last failure with               *)
(* RecoveryTimeout and reads the clock for nothing else: the clock of this *)
(* specification advances by RecoveryTimeout or one ms more, and a shorter *)
(* span (a backoff wait, SpecRetry has them in ms) leaves it as it is.     *)
TickSteps == {RecoveryTimeout, RecoveryTimeout + 1}

(* Time passes. *)
Tick ==
  /\ \E d \in TickSteps :
       /\ now + d <= MaxNow
       /\ now' = now + d
  /\ UNCHANGED <<breakerVars, notBreaker>>

Next ==
  \/ Start
  \/ \E c \in BagToSet(calls) : OpSucceeds(c)
  \/ \E c \in BagToSet(calls) : OpFailsRetry(c)
  \/ \E c \in BagToSet(calls) : DelayDone(c)
  \/ \E c \in BagToSet(calls) : OpFailsLast(c)
  \/ \E c \in BagToSet(calls) : FallbackDone(c)
  \/ Tick

Spec == Init /\ [][Next]_vars

(* The same calls made one at a time: a call starts only once the call     *)
(* before it has returned.                                                 *)
NextSeq ==
  \/ (InFlight = 0 /\ Start)
  \/ \E c \in BagToSet(calls) : OpSucceeds(c)
  \/ \E c \in BagToSet(calls) : OpFailsRetry(c)
  \/ \E c \in BagToSet(calls) : DelayDone(c)
  \/ \E c \in BagToSet(calls) : OpFailsLast(c)
  \/ \E c \in BagToSet(calls) : FallbackDone(c)
  \/ Tick

SpecSeq == Init /\ [][NextSeq]_vars

(* The calls made one at a time until the breaker is HALF_OPEN, when      *)
(* calls start beside the call in flight.                                  *)
NextTrial ==
  \/ ((InFlight = 0 \/ Stored.state = "HALF_OPEN") /\ StartCall(MaxTrialCalls))
  \/ \E c \in BagToSet(calls) : OpSucceeds(c)
  \/ \E c \in BagToSet(calls) : OpFailsRetry(c)
  \/ \E c \in BagToSet(calls) : DelayDone(c)
  \/ \E c \in BagToSet(calls) : OpFailsLast(c)
  \/ \E c \in BagToSet(calls) : FallbackDone(c)
  \/ Tick

SpecTrial == Init /\ [][NextTrial]_vars

(* One executeWithRetry call on its own, with the clock in ms. *)
NextRetry ==
  \/ RetryCall
  \/ RetryOpResolves
  \/ RetryOpRejects
  \/ RetryTimerFires
  \/ RetryTick

SpecRetry == Init /\ [][NextRetry]_vars

(* One call of a batch runner. *)
NextBatch ==
  \/ EarlierCall
  \/ BatchCall
  \/ ItemSucceeds
  \/ ItemFails
  \/ ItemFallsBack
  \/ BatchJoined
  \/ BatchDelayElapsed

SpecBatch == Init /\ [][NextBatch]_vars

(* The cache service and its clock. *)
NextCache ==
  \/ SetCachedResult
  \/ GetCachedResult
  \/ ClearCache
  \/ InvalidateCache
  \/ CacheTick

SpecCache == Init /\ [][NextCache]_vars

(* Calls of the functions of the fan-out service. *)
NextFanout ==
  \/ FanoutCall
  \/ FanoutExpanded
  \/ FanoutItemSettles
  \/ FanoutBatchJoined
  \/ FanoutDelayElapsed
  \/ FanoutWaits

SpecFanout == Init /\ [][NextFanout]_vars

NextFunctions ==
  \/ CallRemoveDuplicateResults
  \/ CallAggregateResults
  \/ CallCalculateSuccessRate
  \/ CallExpandQuery
  \/ CallCreateBatches
  \/ CallHasValidCache

SpecFunctions == Init /\ [][NextFunctions]_vars

(* useCredits calls on one referral code, side by side. *)
NextCredits ==
  \/ Provision
  \/ UseCredits
  \/ \E c \in CreditCalls : Get1Resolves(c)
  \/ \E c \in CreditCalls : Get2Resolves(c)
  \/ \E c \in CreditCalls : GetRejects(c)
  \/ \E c \in CreditCalls : Upd1Resolves(c)
  \/ \E c \in CreditCalls : Upd1Rejects(c)
  \/ \E c \in CreditCalls : Upd2Resolves(c)
  \/ \E c \in CreditCalls : Upd2Rejects(c)

SpecCredits == Init /\ [][NextCredits]_vars

(* generateContentStrategy calls on one service object, side by side. *)
NextGemini ==
  \/ InitializeAI
  \/ GenerateContentStrategy
  \/ \E c \in BagToSet(gemini.calls) : ModelResolves(c)
  \/ \E c \in BagToSet(gemini.calls) : ModelRejectsQuota(c)
  \/ \E c \in BagToSet(gemini.calls) : ModelRejectsOther(c)
  \/ \E c \in BagToSet(gemini.calls) : GeminiDelayElapsed(c)

SpecGemini == Init /\ [][NextGemini]_vars

----------------------------------------------------------------------------
(* Properties *)

(* The step is the return of call c. *)
Returns(c) ==
  /\ c \in BagToSet(calls)
  /\ c.pc \in {"op", "fb"}
  /\ calls' = calls (-) SetToBag({c})

(* The step is the start of a call, which is c once it reaches its await. *)
Starts(c) ==
  /\ started' = started + 1
  /\ calls' = calls (+) SetToBag({c})

SinceLastFailure == now - Stored.lastFailureTime

(* C1: with the calls made one at a time from a fresh breaker, a call that *)
(* starts after five calls have failed, no more than RecoveryTimeout ms    *)
(* after the last recorded failure, does not invoke the operation and      *)
(* returns the fallback's result.                                          *)
C1_CircuitOpens ==
  [][ /\ (started' = started + 1 /\ failedCalls = 5 /\ SinceLastFailure <= 60000)
         => \E c \in BagToSet(calls') :
              Starts(c) /\ c.pc = "fb" /\ c.invoked = 0
      /\ \A c \in BagToSet(calls) :
           (Returns(c) /\ c.invoked = 0) => ret'.result = "fallback" ]_vars

C1_Witness ==
  /\ failedCalls = 5
  /\ SinceLastFailure = 60000
  /\ \E c \in BagToSet(calls) : c.pc = "fb" /\ c.invoked = 0

(* C2: no step takes the state stored under 'default' from OPEN to CLOSED. *)
C2_NoOpenToClosed ==
  [][Stored.state = "OPEN" => Stored'.state # "CLOSED"]_vars

C4_NeverRejects ==
  /\ ret.result # "rejected"
  /\ ret.via = "op" => ret.result = "op"
  /\ ret.via = "fb" => ret.result = "fallback"

C4_Witness ==
  /\ calls = EmptyBag
  /\ started = 6
  /\ failedCalls = 5
  /\ Stored.state = "OPEN"
  /\ ret = [result |-> "fallback", via |-> "fb"]

ExpectedWaits == <<1000, 2000, 4000>>

RECURSIVE SumSeq(_)
SumSeq(q) == IF q = <<>> THEN 0 ELSE Head(q) + SumSeq(Tail(q))

(* C5: one executeWithRetry call invokes the operation at most 4 times;    *)
(* the wait after failed attempt i (not the last) is 1000, 2000, 4000 ms   *)
(* and the next attempt is not invoked before it is over; no wait follows  *)
(* the attempt that ends the call, and four failed attempts wait 7000 ms   *)
(* in total.                                                               *)
C5_RetryBound ==
  /\ retry.invoked <= 4
  /\ Len(retry.waits) <= 3
  /\ \A i \in 1..Len(retry.waits) : retry.waits[i] = ExpectedWaits[i]
  /\ \A i \in 2..Len(retry.log) :
       retry.log[i].from - retry.log[i - 1].at >= ExpectedWaits[i - 1]
  /\ retry.pc \in {"returned", "thrown"} => Len(retry.waits) = Len(retry.log) - 1
  /\ (retry.pc = "thrown" /\ Len(retry.log) = 4) => SumSeq(retry.waits) = 7000

C5_Witness ==
  /\ retry.pc = "thrown"
  /\ Len(retry.log) = 4
  /\ SumSeq(retry.waits) = 7000

(* C6: executeWithRetry returns the result of the first attempt that       *)
(* succeeds and invokes the operation no more after it; when it throws,    *)
(* every attempt failed and the error thrown is the error of the last      *)
(* attempt.                                                                *)
C6_FirstSuccessOrLastError ==
  LET n == Len(retry.log)
  IN /\ retry.pc = "returned" =>
          /\ retry.invoked = n
          /\ retry.log[n].ok
          /\ \A i \in 1..(n - 1) : ~retry.log[i].ok
          /\ retry.out = [kind |-> "value", v |-> retry.log[n].v]
     /\ retry.pc = "thrown" =>
          /\ retry.invoked = n
          /\ \A i \in 1..n : ~retry.log[i].ok
          /\ retry.out = [kind |-> "error", v |-> retry.log[n].v]

C6_Witness ==
  /\ retry.pc = "thrown"
  /\ Len(retry.log) = 4
  /\ retry.log[1].v # retry.log[4].v
  /\ retry.out.v = retry.log[4].v


(* Batch runners (SpecBatch) *)

Done == batch.pc = "done"

Executed(i) == batch.opOk[i] \in {"ok", "failed"}

(* C7: when a runner returns, it returns exactly one result per input      *)
(* query and the i-th result belongs to the i-th query, in whatever order  *)
(* the operations of a batch completed.                                    *)
C7_BatchOrdering ==
  Done =>
    /\ Len(batch.results) = Len(batch.queries)
    /\ \A i \in 1..Len(batch.queries) : batch.results[i].query = batch.queries[i]

(* A brief runner has returned from two batches in which some item         *)
(* settled before an earlier item of its batch.                            *)
C7_Witness ==
  /\ Done
  /\ batch.runner = "brief"
  /\ Len(batch.queries) > concurrencyLimit
  /\ batch.outOfOrder
  /\ Len(batch.results) = Len(batch.queries)

(* C8 as stated: when the operation of one item has failed, the runner     *)
(* returns a result for every item, success is false for the failed item,  *)
(* and every other item of the same and of later batches has been executed *)
(* and is reported with the outcome of its operation.                      *)
C8_AllExecuted ==
  (Done /\ Cardinality({i \in 1..Len(batch.queries) : batch.opOk[i] = "failed"}) = 1) =>
    /\ Len(batch.results) = Len(batch.queries)
    /\ \A i \in 1..Len(batch.queries) :
         /\ Executed(i)
         /\ batch.results[i].success = (batch.opOk[i] = "ok")

(* C8, amended: the runner returns a result for every item, with success   *)
(* true exactly when the item's operation ran and succeeded; an item's     *)
(* operation is executed unless the circuit breaker of the brief processor *)
(* is OPEN, its recovery timeout not elapsed, when the item starts: such   *)
(* an item is reported with its fallback, success false.                   *)
C8_PartialFailure ==
  /\ \A i \in 1..Len(batch.queries) :
       /\ batch.opOk[i] # "refused"
       /\ batch.opOk[i] = "skipped" => batch.runner = "brief"
  /\ Done =>
       /\ Len(batch.results) = Len(batch.queries)
       /\ \A i \in 1..Len(batch.queries) :
            /\ batch.opOk[i] \in {"ok", "failed", "skipped"}
            /\ batch.results[i].query = batch.queries[i]
            /\ batch.results[i].success = (batch.opOk[i] = "ok")

(* The brief processor has returned from two batches: the third item       *)
(* failed, every other item of its batch and of the later batch succeeded. *)
C8_Witness ==
  /\ Done
  /\ batch.runner = "brief"
  /\ Len(batch.queries) > concurrencyLimit
  /\ Len(batch.results) = Len(batch.queries)
  /\ \A i \in 1..Len(batch.queries) :
       /\ batch.opOk[i] = (IF i = 3 THEN "failed" ELSE "ok")
       /\ batch.results[i].success = (i # 3)

(* C9: the promises of a runner's items that are not settled are never     *)
(* more than 10 under the brief processor and 3 in executeParallelQueries. *)
C9_ConcurrencyBound ==
  Cardinality(PendingItems) <= (IF batch.runner = "fanout" THEN 3 ELSE 10)

(* Ten operations of the brief processor are in flight, and more queries   *)
(* wait for the next batch.                                                *)
C9_Witness ==
  /\ batch.runner = "brief"
  /\ Len(batch.queries) > 10
  /\ Cardinality(PendingItems) = 10
  /\ \A j \in PendingItems : batch.settled[j].at = "op"

(* Cache (SpecCache) *)

(* C10: getCachedResult returns null whenever the time of the call is      *)
(* greater than the timestamp of the entry it finds plus the entry's ttl,  *)
(* and an entry it returns is the one it found, not yet expired.           *)
C10_CacheExpiry ==
  /\ (/\ lastGet.found # <<>>
      /\ lastGet.at > lastGet.found[1].timestamp + lastGet.found[1].ttl)
       => lastGet.result = <<>>
  /\ lastGet.result # <<>> =>
       /\ lastGet.result = lastGet.found
       /\ lastGet.at <= lastGet.result[1].timestamp + lastGet.result[1].ttl

(* An entry written with the default ttl, neither invalidated nor cleared, *)
(* was found after its ttl had passed, and null was returned.              *)
C10_Witness ==
  /\ lastGet.found # <<>>
  /\ lastGet.found[1].ttl = ttl
  /\ lastGet.at = lastGet.found[1].timestamp + ttl + 1
  /\ lastGet.result = <<>>

(* The ttl a setCachedResult call asks for: the customTtl it gives, and    *)
(* the default of one hour when it gives none or 0.                        *)
RequestedTtl(customTtl) ==
  IF customTtl.given /\ customTtl.v # 0 THEN customTtl.v ELSE 3600000

WrittenEntry(w) ==
  [data |-> w.data, timestamp |-> w.at, ttl |-> RequestedTtl(w.customTtl)]

(* C11: a getCachedResult not later than timestamp + ttl of the last set   *)
(* of its key, with no invalidate or clear of the key since, returns the   *)
(* value of that set; and the entry of a key in the map is the one its     *)
(* last set wrote: its value, the time of that set and the ttl asked for.  *)
C11_RoundTrip ==
  /\ (/\ lastGet.written # <<>>
      /\ lastGet.at <= lastGet.written[1].at
                         + RequestedTtl(lastGet.written[1].customTtl))
       => lastGet.result = <<WrittenEntry(lastGet.written[1])>>
  /\ \A k \in DOMAIN cache :
       /\ lastSet[k] # <<>>
       /\ cache[k] = WrittenEntry(lastSet[k][1])

(* A key was set again 1 ms after the start with "d2" and a ttl of 1 ms,   *)
(* and a get at the last instant before expiry returned that entry.        *)
C11_Witness ==
  /\ lastGet.written # <<>>
  /\ lastGet.written[1] = [data |-> "d2", at |-> 1,
                           customTtl |-> [given |-> TRUE, v |-> 1]]
  /\ lastGet.at = 2
  /\ lastGet.result = <<[data |-> "d2", timestamp |-> 1, ttl |-> 1]>>

(* The keys of Keys that each pattern of Patterns matches as a JavaScript  *)
(* regular expression.                                                     *)
Matching ==
  {<< <<"a", "b">>, <<"a", "b">> >>,
   << <<"b">>, <<"a", "b">> >>, << <<"b">>, <<"b", "a">> >>,
   << <<"^", "b">>, <<"b", "a">> >>,
   << <<"b", "$">>, <<"a", "b">> >>}

(* C12: a call of invalidateCache(pattern) removes the entries whose keys  *)
(* match the pattern and no other; the entries left are unchanged and the  *)
(* size goes down by the number of matching keys.                          *)
C12_InvalidateFrame ==
  [][invalidated' # <<>> =>
       LET pattern == invalidated'[1].pattern
           matching == {k \in DOMAIN cache : <<pattern, k>> \in Matching}
       IN /\ DOMAIN cache' = DOMAIN cache \ matching
          /\ \A k \in DOMAIN cache' : cache'[k] = cache[k]
          /\ Cardinality(DOMAIN cache')
               = Cardinality(DOMAIN cache) - Cardinality(matching)]_vars

(* invalidateCache("^b") has removed "ba" from a map of two entries and    *)
(* left "ab".                                                              *)
C12_Witness ==
  /\ invalidated = <<[pattern |-> <<"^", "b">>, sizeBefore |-> 2]>>
  /\ DOMAIN cache = {<<"a", "b">>}

(* Functions of the fan-out service (SpecFunctions) *)

Called(op) == calc.op = op

(* The positions of results that hold the first occurrence of a url. *)
FirstOccurrences(results) ==
  {i \in 1..Len(results) :
     /\ results[i].url # ""
     /\ \A j \in 1..(i - 1) : results[j].url # results[i].url}

(* The urls of the items of the successful outcomes. *)
UrlsOf(parallelResults) ==
  {u \in Urls \ {""} :
     \E i \in 1..Len(parallelResults) :
       /\ parallelResults[i].success
       /\ \E k \in 1..Len(parallelResults[i].result.items) :
            parallelResults[i].result.items[k].url = u}

(* C13: the list removeDuplicateResults returns has no two results with    *)
(* the same url and is, in input order, the first result of every url;     *)
(* uniqueResults of the aggregate counts each url of a successful result   *)
(* once.                                                                   *)
C13_Deduplication ==
  /\ Called("removeDuplicateResults") =>
       LET firsts == FirstOccurrences(calc.arg)
       IN /\ \A a, b \in 1..Len(calc.out) : calc.out[a].url = calc.out[b].url => a = b
          /\ Len(calc.out) = Cardinality(firsts)
          /\ \A k \in 1..Len(calc.out) :
               calc.out[k] = calc.arg[CHOOSE i \in firsts :
                                        Cardinality({j \in firsts : j <= i}) = k]
  /\ Called("aggregateResults") =>
       calc.out.uniqueResults = Cardinality(UrlsOf(calc.arg))

(* Three results, the first and the third with the same url and different  *)
(* titles: the first two are kept.                                         *)
C13_Witness ==
  /\ Called("removeDuplicateResults")
  /\ calc.arg = <<[url |-> "u1", title |-> "t1"], [url |-> "u2", title |-> "t1"],
                  [url |-> "u1", title |-> "t2"]>>
  /\ calc.out = <<[url |-> "u1", title |-> "t1"], [url |-> "u2", title |-> "t1"]>>

NumSuccessful(parallelResults) ==
  Cardinality({i \in 1..Len(parallelResults) : parallelResults[i].success})

(* C14: the success rate is the number of outcomes with success = true     *)
(* over the number of outcomes, and 0 for no outcomes; in the aggregate    *)
(* successfulQueries + failedQueries = totalQueries.                       *)
C14_SuccessRate ==
  /\ Called("calculateSuccessRate") =>
       IF Len(calc.arg) = 0 THEN calc.out = Zero
       ELSE /\ calc.out.den # 0
            /\ calc.out.num * Len(calc.arg) = NumSuccessful(calc.arg) * calc.out.den
  /\ Called("aggregateResults") =>
       /\ calc.out.totalQueries = Len(calc.arg)
       /\ calc.out.successfulQueries = NumSuccessful(calc.arg)
       /\ calc.out.successfulQueries + calc.out.failedQueries = calc.out.totalQueries

(* Seven outcomes, two of them failures: 5/7. *)
C14_Witness ==
  /\ Called("calculateSuccessRate")
  /\ Len(calc.arg) = 7
  /\ NumSuccessful(calc.arg) = 5
  /\ calc.out = Quotient(5, 7)

(* The maxQueries a call of expandQuery is configured with: the option     *)
(* when it is given and positive, else the default 5.                      *)
ConfiguredMaxQueries(options) ==
  IF options.maxQueries.given /\ options.maxQueries.v >= 1
  THEN options.maxQueries.v ELSE 5

(* C15: the list expandQuery returns starts with the primary query, of     *)
(* type 'primary' and priority 1 (10 tenths), is sorted in non-decreasing  *)
(* priority and is not longer than the configured maxQueries.              *)
C15_QueryExpansion ==
  (Called("expandQuery") /\ ~calc.out.threw) =>
    LET queries == calc.out.queries
    IN /\ Len(queries) >= 1
       /\ queries[1] = [query |-> <<calc.arg.primaryQuery>>, type |-> "primary",
                        priority |-> 10]
       /\ \A i \in 1..(Len(queries) - 1) : queries[i].priority <= queries[i + 1].priority
       /\ Len(queries) <= ConfiguredMaxQueries(calc.arg.options)

(* Every kind of variant is asked for, with competitors, and the 19        *)
(* queries are cut to the 7 asked for: the primary, the five semantic      *)
(* variants and the first long-tail variant.                               *)
C15_Witness ==
  /\ Called("expandQuery")
  /\ calc.arg.options = [includeSemantic |-> TRUE, includeLongTail |-> TRUE,
                         includeCompetitorAnalysis |-> TRUE,
                         maxQueries |-> [given |-> TRUE, v |-> 7]]
  /\ Len(calc.arg.competitors) = 3
  /\ ~calc.out.threw
  /\ Len(calc.out.queries) = 7
  /\ calc.out.queries[7].type = "longtail"

RECURSIVE Concat(_)
Concat(seqs) == IF seqs = <<>> THEN <<>> ELSE Head(seqs) \o Concat(Tail(seqs))

(* C16: createBatches splits n items with batch size b into ceil(n / b)    *)
(* consecutive batches whose concatenation is the input; every batch but   *)
(* the last has b items, the last has 1 to b; no items give no batches.    *)
C16_BatchPartition ==
  Called("createBatches") =>
    LET n == Len(calc.arg.items)
        b == calc.arg.batchSize
        batches == calc.out
    IN /\ Len(batches) = (n + b - 1) \div b
       /\ Concat(batches) = calc.arg.items
       /\ \A k \in 1..(Len(batches) - 1) : Len(batches[k]) = b
       /\ Len(batches) > 0 => Len(batches[Len(batches)]) \in 1..b
       /\ n = 0 => batches = <<>>

(* Seven items with batch size 3 give batches of 3, 3 and 1. *)
C16_Witness ==
  /\ Called("createBatches")
  /\ calc.arg.batchSize = 3
  /\ calc.out = << <<1, 2, 3>>, <<4, 5, 6>>, <<7>> >>

(* C17: a query executed by executeQueryFanout is bounded by the           *)
(* queryTimeout of 30 seconds: no item of a batch is still awaited more    *)
(* than queryTimeout ms after the batch started it.                        *)
C17_QueryTimeout ==
  fanout.pc = "batch" =>
    \A j \in 1..Len(fanout.settled) :
      fanout.settled[j].status = "pending" => now - fanout.startedAt <= queryTimeout

(* C18: executeQueryFanout never rejects. When the try block throws, it    *)
(* resolves with the fallback result: expandedQueries is [primaryQuery],   *)
(* parallelResults is empty, successRate is 0 and fallbackUsed is true.    *)
(* On the normal path fallbackUsed is true exactly when successRate is     *)
(* below 0.8, that is when 5 * successes < 4 * total.                      *)
C18_FanoutNeverRejects ==
  /\ fanout.pc # "idle" => fanout.promise.status # "rejected"
  /\ fanout.pc = "returned" =>
       /\ fanout.promise.status = "resolved"
       /\ LET r == fanout.promise.value
          IN IF fanout.threw
             THEN /\ r.expandedQueries = << <<fanout.primaryQuery>> >>
                  /\ r.parallelResults = <<>>
                  /\ r.successRate.num = 0
                  /\ r.fallbackUsed
             ELSE r.fallbackUsed <=> (5 * r.successRate.num < 4 * r.successRate.den)

(* expandQuery threw on the url of a competitor and the call has resolved  *)
(* with the fallback result.                                               *)
C18_Witness ==
  /\ fanout.pc = "returned"
  /\ fanout.threw
  /\ fanout.promise.status = "resolved"
  /\ fanout.promise.value.fallbackUsed

(* The calls in flight whose operation has been invoked and whose         *)
(* executeWithRetry has not returned yet.                                  *)
OperationsInFlight ==
  LET running == {c \in BagToSet(calls) : c.pc \in {"op", "delay"}}
  IN BagCardinality([c \in running |-> CopiesIn(c, calls)])

(* C19: while the breaker is HALF_OPEN at most one operation is in         *)
(* flight: a call that starts beside the trial does not invoke its         *)
(* operation.                                                              *)
C19_HalfOpenSingleTrial ==
  Stored.state = "HALF_OPEN" => OperationsInFlight <= 1

(* C20: when the trial operation of a HALF_OPEN breaker fails, the step    *)
(* that handles the failure leaves the breaker OPEN with the time of the   *)
(* failure as its last-failure time.                                       *)
C20_FailedTrialReopens ==
  [][\A c \in BagToSet(calls) :
       (c.trial /\ OpFailsLast(c)) =>
         (Stored'.state = "OPEN" /\ Stored'.lastFailureTime = now')]_vars

(* C21: the breaker counts consecutive failures, so a success while it is  *)
(* CLOSED ends the run: with the calls made one at a time, the failed call *)
(* that takes the breaker from CLOSED to OPEN does not come directly after *)
(* a call that succeeded.                                                  *)
C21_ConsecutiveFailures ==
  \A c \in BagToSet(calls) :
    (/\ c.pc = "fb" /\ c.passed /\ ~c.trial
     /\ Stored.state = "OPEN"
     /\ Stored.failures = FailureThreshold)
      => ret.result # "op"

(* C22: no update of the failure count is lost: when every call made so   *)
(* far has failed and all have completed, the failure count stored under   *)
(* 'default' is the number of those calls, also when they started before   *)
(* any state had been stored.                                              *)
C22_NoLostUpdate ==
  (calls = EmptyBag /\ started > 0 /\ failedCalls = started)
    => Stored.failures = started

(* The number of batches of the runner's call, and the number of the      *)
(* batch it is at, counted from 1.                                         *)
NumBatches ==
  (Len(batch.queries) + BatchSizeOf(batch.runner) - 1) \div BatchSizeOf(batch.runner)

BatchNumber ==
  IF batch.runner = "fanout" THEN batch.pos \div batchSize + 1 ELSE batch.pos

(* C23: the batches run one after the other. While batch k is awaited the  *)
(* items in flight are items of batch k, every item of the batches before  *)
(* it has settled and given its result, and k - 1 delays have been made;   *)
(* a delay follows every batch but the last, so a call with m batches      *)
(* ends after m - 1 delays.                                                *)
C23_SequentialBatches ==
  LET size == BatchSizeOf(batch.runner)
      k == BatchNumber
  IN /\ batch.pc = "await" =>
          /\ batch.delays = k - 1
          /\ Len(batch.results) = (k - 1) * size
          /\ \A j \in 1..Len(batch.cur) : batch.cur[j] = (k - 1) * size + j
     /\ batch.pc = "delay" =>
          /\ k < NumBatches
          /\ batch.delays = k
          /\ Len(batch.results) = k * size
          /\ PendingItems = {}
     /\ batch.pc = "done" =>
          /\ batch.delays = IF NumBatches = 0 THEN 0 ELSE NumBatches - 1
          /\ Len(batch.results) = Len(batch.queries)

(* executeParallelQueries has run 11 queries in 4 batches with 3 delays. *)
C23_Witness ==
  /\ batch.pc = "done"
  /\ batch.runner = "fanout"
  /\ NumBatches = 4
  /\ batch.delays = 3

(* C24: when a retryCondition is given and is false of the error of a     *)
(* failed attempt, executeWithRetry throws that error at once: the attempt *)
(* is the last invocation of the operation and no wait follows it, even    *)
(* when attempts remain.                                                   *)
C24_NonRetryable ==
  \A i \in 1..Len(retry.log) :
    (~retry.log[i].ok /\ retry.cond.given /\ retry.log[i].v \notin retry.cond.retryable)
      => /\ i = Len(retry.log)
         /\ retry.invoked = i
         /\ retry.pc = "thrown"
         /\ retry.out = [kind |-> "error", v |-> retry.log[i].v]
         /\ Len(retry.waits) = i - 1

(* The first attempt failed with a retryable error, the second with one    *)
(* the retryCondition refuses: the call has thrown with two attempts left. *)
C24_Witness ==
  /\ retry.pc = "thrown"
  /\ retry.cond.given
  /\ Len(retry.log) = 2
  /\ retry.log[1].v \in retry.cond.retryable
  /\ retry.log[2].v \notin retry.cond.retryable

(* C25: getCachedResult on a key whose entry has expired deletes that      *)
(* entry and no other, so the map is one entry smaller; on a key that is   *)
(* absent or not expired it leaves the map as it was.                      *)
C25_GetFrame ==
  [][lastGet' # NoGet =>
       LET key == lastGet'.key
           expired == /\ key \in DOMAIN cache
                      /\ lastGet'.at - cache[key].timestamp > cache[key].ttl
       IN IF expired
          THEN /\ key \notin DOMAIN cache'
               /\ DOMAIN cache' = DOMAIN cache \ {key}
               /\ Cardinality(DOMAIN cache') = Cardinality(DOMAIN cache) - 1
               /\ \A k \in DOMAIN cache' : cache'[k] = cache[k]
          ELSE cache' = cache]_vars

(* getCachedResult has found an expired entry in a map of two and deleted  *)
(* it; the other entry is left.                                            *)
C25_Witness ==
  /\ lastGet # NoGet
  /\ lastGet.found # <<>>
  /\ lastGet.at - lastGet.found[1].timestamp > lastGet.found[1].ttl
  /\ lastGet.key \notin DOMAIN cache
  /\ Cardinality(DOMAIN cache) = 1

(* C26: every circuit state object is CLOSED exactly when its failure      *)
(* count is below 5: an OPEN or HALF_OPEN state has failures >= 5 and a    *)
(* CLOSED state has failures <= 4.                                         *)
C26_PhaseMatchesCount ==
  \A o \in DOMAIN heap :
    heap[o].state = "CLOSED" <=> heap[o].failures < 5

(* A trial has failed beside a HALF_OPEN breaker's count of 5: the stored  *)
(* state is OPEN again with 6 failures.                                    *)
C26_Witness ==
  /\ Stored.state = "OPEN"
  /\ Stored.failures = 6

(* C27: the two validity checks of the cache agree: at every time,         *)
(* hasValidCache(key) is true exactly when getCachedResult(key) finds an   *)
(* entry and does not take it for expired, also when the age of the entry  *)
(* equals its ttl.                                                         *)
C27_ValidityChecksAgree ==
  Called("hasValidCache") =>
    (calc.out <=> (/\ calc.arg.cached # <<>>
                   /\ ~Expired(calc.arg.cached[1], calc.arg.at)))

(* C28: credits are never overdrawn: however useCredits calls on one       *)
(* referral code interleave, creditsRemaining of its 'referral-codes'      *)
(* document never becomes negative and totalTokens of its 'tokenUsage'     *)
(* document never exceeds tokenLimit.                                      *)
C28_NeverOverdrawn ==
  Provisioned =>
    /\ credits.referralCodes.exists =>
         credits.referralCodes.creditsRemaining >= 0
    /\ credits.tokenUsage.exists =>
         credits.tokenUsage.totalTokens <= credits.tokenUsage.tokenLimit

(* C29: a refused credit use changes nothing: a useCredits call whose code *)
(* was not found, is inactive or has fewer credits remaining than asked    *)
(* for returns false, and a call that returns false has written to neither *)
(* document; a call returns true only in the step that increments exactly  *)
(* one of the two documents by the amount asked for, its only write.       *)
C29_RefusedChangesNothing ==
  [][credits'.last # <<>> =>
       LET r == credits'.last[1]
           refused == \/ r.referralCode.null
                      \/ ~r.referralCode.isActive
                      \/ r.referralCode.creditsRemaining < r.creditsUsed
           tokenCharged ==
             /\ credits.tokenUsage.exists
             /\ credits'.tokenUsage =
                  [credits.tokenUsage EXCEPT !.totalTokens = @ + r.creditsUsed]
             /\ credits'.referralCodes = credits.referralCodes
           codeCharged ==
             /\ credits.referralCodes.exists
             /\ credits'.referralCodes =
                  [credits.referralCodes EXCEPT
                     !.creditsUsed = @ + r.creditsUsed,
                     !.creditsRemaining = @ - r.creditsUsed]
             /\ credits'.tokenUsage = credits.tokenUsage
       IN /\ refused => ~r.out
          /\ ~r.out => /\ r.writes = 0
                       /\ credits'.tokenUsage = credits.tokenUsage
                       /\ credits'.referralCodes = credits.referralCodes
          /\ r.out => /\ r.writes = 1
                      /\ r.creditsUsed > 0
                      /\ tokenCharged \/ codeCharged]_vars

(* After an earlier call was charged to the 'referral-codes' document, a   *)
(* call asking for more than the credits left has returned false.          *)
C29_Witness ==
  /\ credits.last # <<>>
  /\ ~credits.last[1].out
  /\ ~credits.last[1].referralCode.null
  /\ credits.last[1].referralCode.isActive
  /\ credits.last[1].referralCode.creditsRemaining < credits.last[1].creditsUsed
  /\ credits.referralCodes.exists
  /\ credits.referralCodes.creditsUsed > 0
  /\ credits.referralCodes.creditsRemaining = 1
  /\ credits.made = 2

(* C30: generation is single-flight: at most one generateContentStrategy   *)
(* call is calling the model or waiting to call it again; a call that      *)
(* starts while another is in progress returns the static fallback without *)
(* calling the model; and isGenerating is true exactly while a call is in  *)
(* progress, so it is false again after a success, after a failure and     *)
(* after the early return for an object without models.                    *)
C30_SingleFlight ==
  /\ BagCardinality(gemini.calls) <= 1
  /\ gemini.isGenerating <=> gemini.calls # EmptyBag
  /\ \A r \in {gemini.last[k] : k \in DOMAIN gemini.last} :
       r.busy => r.out = "fallback" /\ r.invoked = 0

(* While a call waits for its backoff after two failed attempts, a second  *)
(* call has returned the fallback.                                         *)
C30_Witness ==
  /\ gemini.last # <<>>
  /\ gemini.last[1].busy
  /\ gemini.isGenerating
  /\ \E c \in BagToSet(gemini.calls) : c.pc = "delay" /\ c.invoked = 2

=============================================================================
